---- MODULE Spec2Model ----
(***************************************************************************)
(* NWChem basis-set / ECP text parser and serializer                       *)
(* (pyscf/gto/basis/parse_nwchem.py).                                      *)
(*                                                                         *)
(* Text is modelled at the level the code works on: a text is a sequence   *)
(* of lines, a line is the sequence of its whitespace-delimited tokens     *)
(* (str.split()), the comment character '#' is a token of its own.  A      *)
(* token is a word or a numeric literal.  A numeric literal carries the    *)
(* decimal value it denotes and the way it is written (integer literal,    *)
(* decimal literal, E-exponent literal, Fortran D-exponent literal), so    *)
(* that int(), float() and '%15.9f' are conversions with their own         *)
(* domains and their own rounding.                                         *)
(***************************************************************************)
EXTENDS Integers, Sequences, FiniteSets, TLC

\* ------------------------------------------------------------------ bounds
MaxLines == 4        \* lines of a basis text given to parse
MaxSearchLines == 3  \* lines of a text searched for an element segment
MaxEcpLines == 4     \* lines of an ECP text given to parse_ecp

\* ------------------------------------------------------- program constants
MAXL == 8

SPDF == <<"S", "P", "D", "F", "G", "H", "I", "K">>

MAPSPDF == [c \in {SPDF[j] : j \in 1..8} |-> (CHOOSE j \in 1..8 : SPDF[j] = c) - 1]

\* -------------------------------------------------------------- optionals
\* Python's None / an unbound local is the empty sequence, a bound value v
\* is <<v>>.
None == <<>>

Some(v) == <<v>>

\* ----------------------------------------------------------------- numbers
\* A decimal value n * 10^-k, kept normalised (k = 0 or n not a multiple of
\* ten) so that equal values are equal tuples.
RECURSIVE Norm(_)
Norm(v) ==
    IF v[2] > 0 /\ v[1] % 10 = 0 THEN Norm(<<v[1] \div 10, v[2] - 1>>) ELSE v

RECURSIVE Pow10(_)
Pow10(k) == IF k = 0 THEN 1 ELSE 10 * Pow10(k - 1)

\* n / d rounded to the nearest integer, ties to even
RoundDiv(n, d) ==
    LET q == n \div d
        r == n % d
    IN  IF 2 * r < d THEN q
        ELSE IF 2 * r > d THEN q + 1
        ELSE IF q % 2 = 0 THEN q ELSE q + 1

\* the value that '%15.9f' % x prints: x rounded to nine decimals
Round9(v) ==
    IF v[2] <= 9 THEN v
    ELSE Norm(<<RoundDiv(v[1], Pow10(v[2] - 9)), 9>>)

\* ------------------------------------------------------------------ tokens
W(s) == [t |-> "w", s |-> s, v |-> <<0, 0>>, fmt |-> "-"]

Num(n, k, fmt) == [t |-> "n", s |-> "", v |-> Norm(<<n, k>>), fmt |-> fmt]

Hash == W("#")

\* str.upper() on the words of the vocabulary
UpperWord(s) ==
    CASE s = "o" -> "O"
      [] s = "Na" -> "NA"
      [] s = "na" -> "NA"
      [] s = "s" -> "S"
      [] s = "p" -> "P"
      [] s = "d" -> "D"
      [] s = "f" -> "F"
      [] s = "g" -> "G"
      [] s = "h" -> "H"
      [] s = "i" -> "I"
      [] s = "k" -> "K"
      [] s = "sp" -> "SP"
      [] s = "ul" -> "UL"
      [] s = "nelec" -> "NELEC"
      [] s = "end" -> "END"
      [] s = "ecp" -> "ECP"
      [] s = "basis" -> "BASIS"
      [] OTHER -> s

\* upper() leaves a numeric literal numeric: 'e' becomes 'E', 'd' becomes 'D'
Upper(line) ==
    [j \in 1..Len(line) |->
        IF line[j].t = "w" THEN W(UpperWord(line[j].s)) ELSE line[j]]

\* dat.replace('D','e'): a Fortran D-exponent literal becomes an E literal
ReplaceD(line) ==
    [j \in 1..Len(line) |->
        IF line[j].t = "n" /\ line[j].fmt = "fortran"
        THEN [line[j] EXCEPT !.fmt = "exp"] ELSE line[j]]

\* float(x) accepts integer, decimal and E-exponent literals
CanFloat(tok) == tok.t = "n" /\ tok.fmt \in {"int", "dec", "exp"}

ToFloat(tok) == tok.v

\* int(x) accepts integer literals only
CanInt(tok) == tok.t = "n" /\ tok.fmt = "int"

ToInt(tok) == tok.v[1]

\* '%15.9f' % x
Fmt9f(x) == [t |-> "n", s |-> "", v |-> Round9(x), fmt |-> "dec"]

\* '%d' % n
FmtD(n) == [t |-> "n", s |-> "", v |-> <<n, 0>>, fmt |-> "int"]

\* dat[0].isalpha() on the first token of a stripped, non-empty line
IsAlpha(tok) == tok.t = "w" /\ tok.s \notin {"#", "->", "(..)", "[..]"}

\* x.startswith(p): no word of the vocabulary properly extends END, BASIS
\* or ECP
StartsWith(x, p) == Len(x) > 0 /\ x[1].t = "w" /\ x[1].s = p

\* dat.split('#')[0].strip()
StripComment(line) ==
    IF \E p \in 1..Len(line) : line[p] = Hash
    THEN SubSeq(line, 1, (CHOOSE p \in 1..Len(line) :
                             /\ line[p] = Hash
                             /\ \A q \in 1..(p - 1) : line[q] # Hash) - 1)
    ELSE line

\* pyscf.gto.mole._std_symbol on the symbols of the vocabulary
StdSymbol(s) ==
    CASE s = "o" -> "O"
      [] s = "na" -> "Na"
      [] s = "NA" -> "Na"
      [] OTHER -> s

\* ---------------------------------------------------- segment search (basis)
\* position of a match of BASIS_SET_DELIMITER = '# *BASIS SET.*\n' in a line
IsDelimAt(line, p) ==
    /\ p + 2 <= Len(line)
    /\ line[p] = Hash
    /\ line[p + 1] = W("BASIS")
    /\ line[p + 2].t = "w" /\ line[p + 2].s \in {"SET", "SET:"}

DelimPos(line) ==
    IF \E p \in 1..Len(line) : IsDelimAt(line, p)
    THEN CHOOSE p \in 1..Len(line) :
            IsDelimAt(line, p) /\ \A q \in 1..(p - 1) : ~IsDelimAt(line, q)
    ELSE 0

\* re.split(BASIS_SET_DELIMITER, string): the chunks between the matches; a
\* match needs the newline that ends its line, what precedes the match on
\* its line stays with the chunk before it.
RECURSIVE SplitFrom(_, _, _)
SplitFrom(str, j, cur) ==
    IF j > Len(str.lines) THEN <<cur>>
    ELSE LET line == str.lines[j]
             p == DelimPos(line)
             terminated == j < Len(str.lines) \/ str.nl
         IN  IF p > 0 /\ terminated
             THEN <<cur \o (IF p > 1 THEN <<SubSeq(line, 1, p - 1)>> ELSE <<>>)>>
                  \o SplitFrom(str, j + 1, <<>>)
             ELSE SplitFrom(str, j + 1, Append(cur, line))

Split(str) == SplitFrom(str, 1, <<>>)

\* dat.split(None, 1): the first token of a chunk, if it has one
RECURSIVE FirstToken(_)
FirstToken(chunk) ==
    IF chunk = <<>> THEN None
    ELSE IF Head(chunk) # <<>> THEN Some(Head(chunk)[1])
    ELSE FirstToken(Tail(chunk))

ChunkMatches(chunk, sy) == FirstToken(chunk) = Some(W(sy))

RECURSIVE SearchFrom(_, _, _)
SearchFrom(raw_data, j, sy) ==
    IF j > Len(raw_data) THEN None
    ELSE IF ChunkMatches(raw_data[j], sy) THEN Some(raw_data[j])
    ELSE SearchFrom(raw_data, j + 1, sy)

\* _search_seg: "for dat in raw_data[1:]"
search_seg(raw_data, sy) == SearchFrom(raw_data, 2, sy)

\* ------------------------------------------------------------ parse, _parse
\* the loop of parse that builds bastxt
RECURSIVE FilterBasis(_)
FilterBasis(ls) ==
    IF ls = <<>> THEN <<>>
    ELSE LET x == Upper(StripComment(Head(ls)))
         IN  (IF x # <<>> /\ ~StartsWith(x, "END") /\ ~StartsWith(x, "BASIS")
              THEN <<x>> ELSE <<>>) \o FilterBasis(Tail(ls))

\* a shell [l, row, row, ...] is the record of b[0] and b[1:]
Shell(l) == [l |-> l, rows |-> <<>>]

AppendRow(basis, j, row) ==
    [basis EXCEPT ![j] = [@ EXCEPT !.rows = Append(@, row)]]

\* a slip in the SP branch: the P shell takes the S coefficient
AppendSP_SameColumn(basis, line) ==
    AppendRow(AppendRow(basis, Len(basis) - 1, <<line[1], line[2]>>),
              Len(basis), <<line[1], line[2]>>)

\* basis_add[-2].append([line[0], line[1]]); basis_add[-1].append([line[0], line[2]])
AppendSP(basis, line) ==
    AppendRow(AppendRow(basis, Len(basis) - 1, <<line[1], line[2]>>),
              Len(basis), <<line[1], line[3]>>)

\* the final grouping of _parse: for l in range(MAXL): bsort.extend(...)
RECURSIVE SortFrom(_, _, _)
SortFrom(xs, l, hi) ==
    IF l >= hi THEN <<>>
    ELSE SelectSeq(xs, LAMBDA b : b.l = l) \o SortFrom(xs, l + 1, hi)

\* a slip in the grouping: shells of one l come out in reverse input order
SortBasis_Unstable(basis) ==
    SortFrom([j \in 1..Len(basis) |-> basis[Len(basis) + 1 - j]], 0, MAXL)

SortBasis(basis) == SortFrom(basis, 0, MAXL)

\* one iteration of the loop of _parse on line dat, from the locals
\* (basis_add, key); the result carries the exception raised, if any
ParseStep(basis, k, dat) ==
    LET same == [basis_add |-> basis, key |-> k, exc |-> "none"]
    IN  IF dat = <<>> \/ dat[1] = Hash THEN same
        ELSE IF IsAlpha(dat[1]) THEN
            IF Len(dat) < 2 THEN [same EXCEPT !.exc = "IndexError"]
            ELSE IF dat[2] = W("SP")
            THEN [basis_add |-> basis \o <<Shell(0), Shell(1)>>,
                  key |-> Some(dat[2]), exc |-> "none"]
            ELSE IF dat[2].t = "w" /\ dat[2].s \in DOMAIN MAPSPDF
            THEN [basis_add |-> Append(basis, Shell(MAPSPDF[dat[2].s])),
                  key |-> Some(dat[2]), exc |-> "none"]
            ELSE [same EXCEPT !.key = Some(dat[2]), !.exc = "KeyError"]
        ELSE
            LET toks == ReplaceD(dat)
                line == [j \in 1..Len(toks) |-> ToFloat(toks[j])]
            IN  IF \E j \in 1..Len(toks) : ~CanFloat(toks[j])
                THEN [same EXCEPT !.exc = "ValueError"]
                ELSE IF k = None
                THEN [same EXCEPT !.exc = "UnboundLocalError"]
                ELSE IF k = Some(W("SP"))
                THEN IF Len(line) < 3 THEN [same EXCEPT !.exc = "IndexError"]
                     ELSE [same EXCEPT !.basis_add = AppendSP(basis, line)]
                ELSE [same EXCEPT !.basis_add = AppendRow(basis, Len(basis), line)]

\* ------------------------------------------------- convert_basis_to_nwchem
\* "nctrs = [len(b[1])-1 for b in basis]" indexes the first row of each shell
CanConvertBasis(basis) == \A j \in 1..Len(basis) : Len(basis[j].rows) >= 1

\* the comment line; its counts follow '#' and are opaque words here
SummaryLine == <<Hash, W("BASIS"), W("SET:"), W("(..)"), W("->"), W("[..]")>>

RECURSIVE ShellLines(_, _)
ShellLines(sy, basis) ==
    IF basis = <<>> THEN <<>>
    ELSE LET bas == Head(basis)
         IN  <<<<W(sy), W(SPDF[bas.l + 1])>>>>
             \o [r \in 1..Len(bas.rows) |->
                   [c \in 1..Len(bas.rows[r]) |-> Fmt9f(bas.rows[r][c])]]
             \o ShellLines(sy, Tail(basis))

\* '\n'.join(res): the last line carries no newline
convert_basis_to_nwchem(sy, basis) ==
    [lines |-> <<SummaryLine>> \o ShellLines(StdSymbol(sy), basis), nl |-> FALSE]

\* ------------------------------------------------------ parse_ecp, _parse_ecp
\* the first token of a raw line, dat.split(None, 1)
LineMatches(line, sy) == line # <<>> /\ line[1] = W(sy)

\* lines 51-54: i after "for i, dat in enumerate(raw_data)", 1-based; the
\* loop leaves i at the first matching line, or at the last line
FindSymb(raw_data, sy) ==
    IF \E j \in 1..Len(raw_data) : LineMatches(raw_data[j], sy)
    THEN CHOOSE j \in 1..Len(raw_data) :
            /\ LineMatches(raw_data[j], sy)
            /\ \A q \in 1..(j - 1) : ~LineMatches(raw_data[q], sy)
    ELSE Len(raw_data)

\* lines 58-63: the loop that collects seg from raw_data[i:]
RECURSIVE SegFrom(_, _, _)
SegFrom(raw_data, j, sy) ==
    IF j > Len(raw_data) THEN [exc |-> "none", seg |-> <<>>]
    ELSE LET dat == Upper(raw_data[j])
         IN  IF dat = <<>> THEN [exc |-> "IndexError", seg |-> <<>>]
             ELSE IF IsAlpha(dat[1]) /\ dat[1] # W(UpperWord(sy))
             THEN [exc |-> "none", seg |-> <<>>]
             ELSE LET rest == SegFrom(raw_data, j + 1, sy)
                  IN  [exc |-> rest.exc, seg |-> <<dat>> \o rest.seg]

\* lines 48-65 of parse_ecp: the segment handed to the filter, or the
\* exception raised while locating it
LocateEcp(str, sy) ==
    IF sy = None THEN [exc |-> "none", seg |-> str.lines]
    ELSE LET raw_data == str.lines
             s == StdSymbol(sy[1])
         IN  IF raw_data = <<>> THEN [exc |-> "UnboundLocalError", seg |-> <<>>]
             ELSE IF FindSymb(raw_data, s) = Len(raw_data)
             THEN [exc |-> "KeyError: ECP not found", seg |-> <<>>]
             ELSE SegFrom(raw_data, FindSymb(raw_data, s), s)

\* the loop of parse_ecp that builds ecptxt
RECURSIVE FilterEcp(_)
FilterEcp(ls) ==
    IF ls = <<>> THEN <<>>
    ELSE LET x == Upper(StripComment(Head(ls)))
         IN  (IF x # <<>> /\ ~StartsWith(x, "END") /\ ~StartsWith(x, "ECP")
              THEN <<x>> ELSE <<>>) \o FilterEcp(Tail(ls))

\* a block [l, by_ang] with by_ang = [[], [], [], []]
Block(l) == [l |-> l, by_ang |-> <<<<>>, <<>>, <<>>, <<>>>>]

\* by_ang[l] for a Python list of four slots: 1-based slot, 0 when l is out
\* of range; a negative index counts from the end
Slot(l) ==
    IF l \in 0..3 THEN l + 1
    ELSE IF l \in (-4)..(-1) THEN l + 5
    ELSE 0

\* by_ang[l].append(row), by_ang being the slot list of block b
AppendSlot(ecp, b, l, row) ==
    [ecp EXCEPT ![b] = [@ EXCEPT !.by_ang =
        [@ EXCEPT ![Slot(l)] = Append(@, row)]]]

\* a slip in the grouping: range(MAXL) as in _parse, the UL blocks are lost
SortEcp_NoUL(ecp) == SortFrom(ecp, 0, MAXL)

\* the final grouping of _parse_ecp: for l in range(-1, MAXL)
SortEcp(ecp) == SortFrom(ecp, -1, MAXL)

\* one iteration of the loop of _parse_ecp on line dat, from the locals
\* (ecp_add, by_ang, nelec, key); by is the index in ecp_add of the block
\* whose slot list by_ang refers to, 0 while by_ang is unbound
EcpStep(ecp, by, ne, k, dat) ==
    LET same == [ecp_add |-> ecp, by_ang |-> by, nelec |-> ne, key |-> k,
                 exc |-> "none"]
    IN  IF dat = <<>> \/ dat[1] = Hash THEN same
        ELSE IF IsAlpha(dat[1]) THEN
            IF Len(dat) < 2 THEN [same EXCEPT !.exc = "IndexError"]
            ELSE IF dat[2] = W("NELEC")
            THEN IF Len(dat) < 3
                 THEN [same EXCEPT !.key = Some(dat[2]), !.exc = "IndexError"]
                 ELSE IF ~CanInt(dat[3])
                 THEN [same EXCEPT !.key = Some(dat[2]), !.exc = "ValueError"]
                 ELSE [same EXCEPT !.key = Some(dat[2]),
                                   !.nelec = Some(ToInt(dat[3]))]
            ELSE IF dat[2] = W("UL")
            THEN [same EXCEPT !.key = Some(dat[2]),
                              !.ecp_add = Append(ecp, Block(-1)),
                              !.by_ang = Len(ecp) + 1]
            ELSE IF dat[2].t = "w" /\ dat[2].s \in DOMAIN MAPSPDF
            THEN [same EXCEPT !.key = Some(dat[2]),
                              !.ecp_add = Append(ecp, Block(MAPSPDF[dat[2].s])),
                              !.by_ang = Len(ecp) + 1]
            ELSE [same EXCEPT !.key = Some(dat[2]), !.exc = "KeyError"]
        ELSE
            LET line == ReplaceD(dat)
            IN  IF ~CanInt(line[1]) THEN [same EXCEPT !.exc = "ValueError"]
                ELSE IF by = 0 THEN [same EXCEPT !.exc = "UnboundLocalError"]
                ELSE IF Slot(ToInt(line[1])) = 0
                THEN [same EXCEPT !.exc = "IndexError"]
                ELSE IF \E j \in 2..Len(line) : ~CanFloat(line[j])
                THEN [same EXCEPT !.exc = "ValueError"]
                ELSE [same EXCEPT !.ecp_add =
                        AppendSlot(ecp, by, ToInt(line[1]),
                                   [j \in 1..(Len(line) - 1) |-> ToFloat(line[j + 1])])]

\* --------------------------------------------------- convert_ecp_to_nwchem
\* "for e,c in dat" unpacks every row into exactly two numbers
CanConvertEcp(ecp) ==
    \A b \in 1..Len(ecp.blocks) : \A s \in 1..4 :
        \A r \in 1..Len(ecp.blocks[b].by_ang[s]) :
            Len(ecp.blocks[b].by_ang[s][r]) = 2

\* SPDF[l].lower()
LowerSPDF == <<"s", "p", "d", "f", "g", "h", "i", "k">>

RECURSIVE SlotLines(_, _)
SlotLines(slots, r_order) ==
    IF slots = <<>> THEN <<>>
    ELSE [r \in 1..Len(Head(slots)) |->
             <<FmtD(r_order), Fmt9f(Head(slots)[r][1]), Fmt9f(Head(slots)[r][2])>>]
         \o SlotLines(Tail(slots), r_order + 1)

RECURSIVE BlockLines(_, _)
BlockLines(sy, blocks) ==
    IF blocks = <<>> THEN <<>>
    ELSE LET ecp_block == Head(blocks)
         IN  <<<<W(sy), IF ecp_block.l = -1 THEN W("ul")
                        ELSE W(LowerSPDF[ecp_block.l + 1])>>>>
             \o SlotLines(ecp_block.by_ang, 0)
             \o BlockLines(sy, Tail(blocks))

convert_ecp_to_nwchem(sy, ecp) ==
    [lines |-> <<<<W(StdSymbol(sy)), W("nelec"), FmtD(ecp.nelec)>>>>
               \o BlockLines(StdSymbol(sy), ecp.blocks),
     nl |-> FALSE]

\* ------------------------------------------------------------------- state
VARIABLES pc, string, symb, pass, first, ret, exc, idx,
          bastxt, basis_add, key, ecptxt, ecp_add, by_ang, nelec

vars == <<pc, string, symb, pass, first, ret, exc, idx,
          bastxt, basis_add, key, ecptxt, ecp_add, by_ang, nelec>>

ecpvars == <<ecptxt, ecp_add, by_ang, nelec>>

basvars == <<bastxt, basis_add>>

\* ------------------------------------------------------------------ inputs
RECURSIVE SeqsUpTo(_, _)
SeqsUpTo(S, n) ==
    IF n = 0 THEN {<<>>}
    ELSE LET shorter == SeqsUpTo(S, n - 1)
         IN  shorter \cup
             {Append(s, x) : s \in {t \in shorter : Len(t) = n - 1}, x \in S}

\* 1.0   0.5   2   0.25   4e-10   1.6e-9 (as 1.6D-9)   -3.0
BasisLines ==
    { <<W("O"), W("S")>>,
      <<W("O"), W("p")>>,
      <<W("O"), W("SP")>>,
      <<W("O"), W("X")>>,
      <<Num(10, 1, "dec"), Num(5, 1, "dec")>>,
      <<Num(2, 0, "int"), Num(25, 2, "dec"), Num(4, 10, "dec")>>,
      <<Num(-30, 1, "dec"), Num(16, 10, "fortran"), Num(5, 1, "dec")>>,
      <<W("END")>> }

SearchLines ==
    { <<Hash, W("BASIS"), W("SET")>>,
      <<W("O"), W("S")>>,
      <<W("C"), W("S")>>,
      <<Num(10, 1, "dec"), Num(5, 1, "dec")>>,
      <<>> }

Symbols == {"O", "Na"}

Start(op, str, sy) ==
    /\ pc = op
    /\ string = str
    /\ symb = sy
    /\ pass = 1
    /\ first = None
    /\ ret = None
    /\ exc = "none"
    /\ idx = 1
    /\ bastxt = <<>>
    /\ basis_add = <<>>
    /\ key = None
    /\ ecptxt = <<>>
    /\ ecp_add = <<>>
    /\ by_ang = 0
    /\ nelec = None

\* parse(text): every text of at most MaxLines lines
Init ==
    \E ls \in SeqsUpTo(BasisLines, MaxLines) :
        Start("parse", [lines |-> ls, nl |-> FALSE], None)

\* parse(text, symb): every text of at most MaxSearchLines lines
InitSearch ==
    \E ls \in SeqsUpTo(SearchLines, MaxSearchLines), nl \in BOOLEAN, sy \in {"O", "o"} :
        Start("parse", [lines |-> ls, nl |-> nl], Some(sy))

\* the ECP text of the documented example
ExampleEcp ==
    << <<W("NA"), W("NELEC"), Num(10, 0, "int")>>,
       <<W("NA"), W("UL")>>,
       <<Num(1, 0, "int"), Num(5, 1, "dec"), Num(100, 1, "dec")>>,
       <<W("NA"), W("S")>>,
       <<Num(0, 0, "int"), Num(10, 1, "dec"), Num(50, 1, "dec")>> >>

\* the example's lines, a row below the printed precision under a negative
\* power, and a row of a single number
EcpLines ==
    { ExampleEcp[j] : j \in 1..5 } \cup
    { <<Num(-1, 0, "int"), Num(5, 1, "dec"), Num(4, 10, "dec")>>,
      <<Num(2, 0, "int"), Num(5, 1, "dec")>> }

EcpSearchLines ==
    { <<W("Na"), W("nelec"), Num(10, 0, "int")>>,
      <<W("Na"), W("ul")>>,
      <<W("NA"), W("s")>>,
      <<W("K"), W("ul")>>,
      <<Num(1, 0, "int"), Num(5, 1, "dec"), Num(100, 1, "dec")>>,
      <<>> }

\* parse_ecp(text): every text of at most MaxEcpLines lines, and the example
InitEcp ==
    \E ls \in SeqsUpTo(EcpLines, MaxEcpLines) \cup {ExampleEcp} :
        Start("parse_ecp", [lines |-> ls, nl |-> FALSE], None)

\* parse_ecp(text, symb): every text of at most MaxSearchLines lines
InitEcpSearch ==
    \E ls \in SeqsUpTo(EcpSearchLines, MaxSearchLines), sy \in {"Na", "na"} :
        Start("parse_ecp", [lines |-> ls, nl |-> FALSE], Some(sy))

\* ----------------------------------------------------------------- actions
\* parse, lines 30-41, up to the call of _parse
Parse ==
    /\ pc = "parse"
    /\ LET seg == IF symb # None
                  THEN search_seg(Split(string), StdSymbol(symb[1]))
                  ELSE Some(string.lines)
       IN  IF seg = None
           THEN /\ exc' = "KeyError: Basis not found"
                /\ pc' = "done"
                /\ UNCHANGED <<bastxt, basis_add, key, idx>>
           ELSE /\ bastxt' = FilterBasis(seg[1])
                /\ basis_add' = <<>>
                /\ key' = None
                /\ idx' = 1
                /\ pc' = "_parse"
                /\ exc' = "none"
    /\ symb' = IF symb # None THEN Some(StdSymbol(symb[1])) ELSE None
    /\ UNCHANGED <<string, pass, first, ret, ecpvars>>

\* _parse, one iteration of "for line in raw_basis"
ParseLine ==
    /\ pc = "_parse"
    /\ idx <= Len(bastxt)
    /\ LET r == ParseStep(basis_add, key, bastxt[idx])
       IN  /\ basis_add' = r.basis_add
           /\ key' = r.key
           /\ exc' = r.exc
           /\ IF r.exc = "none"
              THEN idx' = idx + 1 /\ pc' = pc
              ELSE idx' = idx /\ pc' = "done"
    /\ UNCHANGED <<string, symb, pass, first, ret, bastxt, ecpvars>>

\* _parse, lines 182-185: the loop is over, group by l and return
ParseReturn ==
    /\ pc = "_parse"
    /\ idx > Len(bastxt)
    /\ ret' = Some(SortBasis(basis_add))
    /\ pc' = IF pass = 1 THEN "convert_basis_to_nwchem" ELSE "done"
    /\ UNCHANGED <<string, symb, pass, first, exc, idx, bastxt, basis_add, key, ecpvars>>

\* convert_basis_to_nwchem(sym, B) on the Basis just returned, and the
\* rendered text handed to parse(text)
ConvertBasis ==
    /\ pc = "convert_basis_to_nwchem"
    /\ \E sy \in Symbols :
        /\ symb # None => sy = symb[1]
        /\ IF CanConvertBasis(ret[1])
           THEN /\ string' = convert_basis_to_nwchem(sy, ret[1])
                /\ first' = ret
                /\ ret' = None
                /\ pass' = 2
                /\ symb' = None
                /\ pc' = "parse"
                /\ exc' = "none"
           ELSE /\ exc' = "IndexError"
                /\ pc' = "done"
                /\ first' = ret
                /\ ret' = None
                /\ pass' = 2
                /\ UNCHANGED <<string, symb>>
    /\ UNCHANGED <<idx, bastxt, basis_add, key, ecpvars>>

Next == Parse \/ ParseLine \/ ParseReturn \/ ConvertBasis

Spec == Init /\ [][Next]_vars

SpecSearch == InitSearch /\ [][Next]_vars

\* parse_ecp, lines 47-72, up to the call of _parse_ecp
ParseEcp ==
    /\ pc = "parse_ecp"
    /\ LET loc == LocateEcp(string, symb)
       IN  IF loc.exc # "none"
           THEN /\ exc' = loc.exc
                /\ pc' = "done"
                /\ UNCHANGED <<ecptxt, ecp_add, by_ang, nelec, key, idx>>
           ELSE /\ ecptxt' = FilterEcp(loc.seg)
                /\ ecp_add' = <<>>
                /\ by_ang' = 0
                /\ nelec' = None
                /\ key' = None
                /\ idx' = 1
                /\ pc' = "_parse_ecp"
                /\ exc' = "none"
    /\ symb' = IF symb # None THEN Some(StdSymbol(symb[1])) ELSE None
    /\ UNCHANGED <<string, pass, first, ret, basvars>>

\* _parse_ecp, one iteration of "for line in raw_ecp"
EcpLine ==
    /\ pc = "_parse_ecp"
    /\ idx <= Len(ecptxt)
    /\ LET r == EcpStep(ecp_add, by_ang, nelec, key, ecptxt[idx])
       IN  /\ ecp_add' = r.ecp_add
           /\ by_ang' = r.by_ang
           /\ nelec' = r.nelec
           /\ key' = r.key
           /\ exc' = r.exc
           /\ IF r.exc = "none"
              THEN idx' = idx + 1 /\ pc' = pc
              ELSE idx' = idx /\ pc' = "done"
    /\ UNCHANGED <<string, symb, pass, first, ret, ecptxt, basvars>>

\* _parse_ecp, lines 209-213: the loop is over; the function returns
\* [nelec, bsort], or falls off its end (returns None) when nelec is None
EcpReturn ==
    /\ pc = "_parse_ecp"
    /\ idx > Len(ecptxt)
    /\ ret' = IF nelec # None
              THEN Some([nelec |-> nelec[1], blocks |-> SortEcp(ecp_add)])
              ELSE None
    /\ pc' = IF pass = 1 /\ nelec # None THEN "convert_ecp_to_nwchem" ELSE "done"
    /\ UNCHANGED <<string, symb, pass, first, exc, idx, ecptxt, ecp_add,
                   by_ang, nelec, key, basvars>>

\* convert_ecp_to_nwchem(sym, E) on the Ecp just returned, and the rendered
\* text handed to parse_ecp(text)
ConvertEcp ==
    /\ pc = "convert_ecp_to_nwchem"
    /\ \E sy \in Symbols :
        /\ symb # None => sy = symb[1]
        /\ IF CanConvertEcp(ret[1])
           THEN /\ string' = convert_ecp_to_nwchem(sy, ret[1])
                /\ symb' = None
                /\ pc' = "parse_ecp"
                /\ exc' = "none"
           ELSE /\ exc' = "ValueError"
                /\ pc' = "done"
                /\ UNCHANGED <<string, symb>>
    /\ first' = ret
    /\ ret' = None
    /\ pass' = 2
    /\ UNCHANGED <<idx, ecptxt, ecp_add, by_ang, nelec, key, basvars>>

NextEcp == ParseEcp \/ EcpLine \/ EcpReturn \/ ConvertEcp

SpecEcp == InitEcp /\ [][NextEcp]_vars

SpecEcpSearch == InitEcpSearch /\ [][NextEcp]_vars

\* ================================================================== claims
GroupOf(xs, l) == SelectSeq(xs, LAMBDA b : b.l = l)

IsAscending(xs) ==
    \A i, j \in 1..Len(xs) : i < j => xs[i].l <= xs[j].l

\* out holds the elements of inp, none lost and none duplicated, in
\* ascending l, the elements of one l in their order in inp
StableGrouping(out, inp) ==
    /\ Len(out) = Len(inp)
    /\ IsAscending(out)
    /\ \A l \in {inp[j].l : j \in 1..Len(inp)} \cup {out[j].l : j \in 1..Len(out)} :
          GroupOf(out, l) = GroupOf(inp, l)

IsHeaderLine(dat) == dat # <<>> /\ IsAlpha(dat[1])

IsSPHeader(dat) == IsHeaderLine(dat) /\ Len(dat) >= 2 /\ dat[2] = W("SP")

\* the number of shells the header lines among the first n lines start
RECURSIVE ShellsBuilt(_, _)
ShellsBuilt(ls, n) ==
    IF n = 0 THEN 0
    ELSE ShellsBuilt(ls, n - 1)
         + (IF IsSPHeader(ls[n]) THEN 2 ELSE IF IsHeaderLine(ls[n]) THEN 1 ELSE 0)

\* the last scanned line of the run of data lines that follows header line h
RunEnd(h) ==
    CHOOSE e \in h..(idx - 1) :
        /\ \A j \in (h + 1)..e : ~IsHeaderLine(bastxt[j])
        /\ e + 1 <= idx - 1 => IsHeaderLine(bastxt[e + 1])

\* the rows [exponent, c-th number] of the data lines that follow header h
SPRows(h, c) ==
    [r \in 1..(RunEnd(h) - h) |-> <<bastxt[h + r][1].v, bastxt[h + r][c].v>>]

\* C1: the list _parse returns is in ascending l, holds exactly the shells
\* built during the scan, and keeps the input order of the shells of one l.
C1_SortedStable ==
    ret # None => StableGrouping(ret[1], basis_add)

C1_Witness ==
    /\ ret # None
    /\ ret[1] # basis_add
    /\ \E i, j \in 1..Len(basis_add) :
          i < j /\ basis_add[i].l = basis_add[j].l /\ basis_add[i] # basis_add[j]

\* C2: after any prefix of the scan every SP header has produced exactly an
\* l=0 and an l=1 shell, whose rows are [exponent, first coefficient] and
\* [exponent, second coefficient] of the data lines that follow it up to the
\* next header; data lines after a later header leave the pair alone.
C2_SPPair ==
    /\ Len(basis_add) = ShellsBuilt(bastxt, idx - 1)
    /\ \A h \in 1..(idx - 1) :
          IsSPHeader(bastxt[h]) =>
              LET pos == ShellsBuilt(bastxt, h - 1) + 1
              IN  /\ basis_add[pos] = [l |-> 0, rows |-> SPRows(h, 2)]
                  /\ basis_add[pos + 1] = [l |-> 1, rows |-> SPRows(h, 3)]

C2_Witness ==
    /\ exc = "none"
    /\ idx >= 5
    /\ IsSPHeader(bastxt[1])
    /\ ~IsHeaderLine(bastxt[2])
    /\ IsHeaderLine(bastxt[3]) /\ ~IsSPHeader(bastxt[3])
    /\ ~IsHeaderLine(bastxt[4])

SameRowsUpTo9(a, b) ==
    /\ Len(a) = Len(b)
    /\ \A r \in 1..Len(a) :
          /\ Len(a[r]) = Len(b[r])
          /\ \A c \in 1..Len(a[r]) : Round9(a[r][c]) = Round9(b[r][c])

SameBasisUpTo9(a, b) ==
    /\ Len(a) = Len(b)
    /\ \A j \in 1..Len(a) :
          a[j].l = b[j].l /\ SameRowsUpTo9(a[j].rows, b[j].rows)

\* C3: whenever parse returned a Basis B, rendering B and parsing the text
\* again succeeds and returns B, numbers equal up to the nine printed
\* decimals.
C3_RoundTripBasis ==
    (pass = 2 /\ pc = "done") =>
        /\ exc = "none"
        /\ ret # None
        /\ SameBasisUpTo9(ret[1], first[1])

SameEcpUpTo9(a, b) ==
    /\ a.nelec = b.nelec
    /\ Len(a.blocks) = Len(b.blocks)
    /\ \A j \in 1..Len(a.blocks) :
          /\ a.blocks[j].l = b.blocks[j].l
          /\ \A s \in 1..4 :
                SameRowsUpTo9(a.blocks[j].by_ang[s], b.blocks[j].by_ang[s])

\* C4: whenever parse_ecp returned an Ecp E, rendering E and parsing the
\* text again succeeds and returns E: same nelec, same blocks, same rows in
\* the same power slots.
C4_RoundTripEcp ==
    (pass = 2 /\ pc = "done") =>
        /\ exc = "none"
        /\ ret # None
        /\ SameEcpUpTo9(ret[1], first[1])

IsNelecLine(dat) == IsHeaderLine(dat) /\ Len(dat) >= 2 /\ dat[2] = W("NELEC")

\* C5: when the lines hold no NELEC header, parse_ecp ends in an error; it
\* never completes normally with an empty or absent result.
C5_MissingNelecRaises ==
    (pass = 1 /\ pc = "done" /\ \A j \in 1..Len(ecptxt) : ~IsNelecLine(ecptxt[j]))
        => exc # "none"

\* C6: when the first line kept by parse is a data line, parse ends in a
\* parse error, not in an index or unbound-variable fault, and returns no
\* Basis.
C6_DataBeforeHeader ==
    (pass = 1 /\ pc \notin {"parse", "_parse"}
        /\ bastxt # <<>> /\ ~IsHeaderLine(bastxt[1]))
        => /\ ret = None
           /\ exc \notin {"none", "IndexError", "UnboundLocalError"}

MatchingChunks ==
    {j \in 1..Len(Split(string)) : ChunkMatches(Split(string)[j], StdSymbol(symb[1]))}

FirstMatchingChunk ==
    Split(string)[CHOOSE j \in MatchingChunks : \A q \in MatchingChunks : j <= q]

\* C7: parse(text, sym) examines every chunk of the split text, the one
\* before the first delimiter included: it fails with 'Basis not found'
\* exactly when no chunk starts with the symbol, and otherwise parses the
\* first such chunk.
C7_SegmentFound ==
    (pass = 1 /\ pc # "parse" /\ symb # None) =>
        /\ exc = "KeyError: Basis not found" <=> MatchingChunks = {}
        /\ MatchingChunks # {} => bastxt = FilterBasis(FirstMatchingChunk)

MatchingLines ==
    {j \in 1..Len(string.lines) : LineMatches(string.lines[j], StdSymbol(symb[1]))}

FirstMatchingLine == CHOOSE j \in MatchingLines : \A q \in MatchingLines : j <= q

\* a line that starts the next element: first character alphabetic, first
\* token different from the upper-cased symbol
StartsOther(line) ==
    /\ line # <<>>
    /\ IsAlpha(Upper(line)[1])
    /\ Upper(line)[1] # W(UpperWord(StdSymbol(symb[1])))

SegmentEnd ==
    IF \E j \in (FirstMatchingLine + 1)..Len(string.lines) : StartsOther(string.lines[j])
    THEN (CHOOSE j \in (FirstMatchingLine + 1)..Len(string.lines) :
            /\ StartsOther(string.lines[j])
            /\ \A q \in (FirstMatchingLine + 1)..(j - 1) : ~StartsOther(string.lines[q])) - 1
    ELSE Len(string.lines)

ExpectedSegment ==
    SelectSeq(SubSeq(string.lines, FirstMatchingLine, SegmentEnd),
              LAMBDA line : line # <<>>)

\* C8: parse_ecp(text, sym) fails with 'ECP not found' when no line starts
\* with the symbol, and otherwise parses exactly the non-blank lines from the
\* first matching line up to the line that starts the next element.
C8_EcpSegment ==
    (pass = 1 /\ pc # "parse_ecp" /\ symb # None) =>
        IF MatchingLines = {}
        THEN exc = "KeyError: ECP not found"
        ELSE /\ exc # "KeyError: ECP not found"
             /\ ecptxt = FilterEcp(ExpectedSegment)

\* C9: the block list _parse_ecp returns holds exactly the blocks started
\* during the scan, every UL block (l = -1) first, then ascending l, blocks
\* of one l in input order.
C9_BlocksOrdered ==
    (ret # None /\ pc \in {"convert_ecp_to_nwchem", "done"}) =>
        /\ StableGrouping(ret[1].blocks, ecp_add)
        /\ \A i, j \in 1..Len(ret[1].blocks) :
              (ret[1].blocks[i].l = -1 /\ ret[1].blocks[j].l >= 0) => i < j

C9_Witness ==
    /\ ret # None
    /\ pc \in {"convert_ecp_to_nwchem", "done"}
    /\ \E i, j \in 1..Len(ecp_add) :
          i < j /\ ecp_add[i].l >= 0 /\ ecp_add[j].l = -1

IsEcpRow(dat) ==
    /\ Len(dat) = 3
    /\ CanInt(dat[1])
    /\ CanFloat(ReplaceD(dat)[2])
    /\ CanFloat(ReplaceD(dat)[3])

ExampleResult ==
    [nelec |-> 10,
     blocks |-> << [l |-> -1, by_ang |-> << <<>>, << <<<<5, 1>>, <<10, 0>>>> >>, <<>>, <<>> >>],
                   [l |-> 0, by_ang |-> << << <<<<1, 0>>, <<5, 0>>>> >>, <<>>, <<>>, <<>> >>] >>]

C10_Step ==
    /\ (pc = "_parse_ecp" /\ idx <= Len(ecptxt) /\ idx' = idx + 1) =>
          LET dat == ecptxt[idx]
          IN  /\ IsEcpRow(dat) =>
                    /\ ToInt(dat[1]) \in 0..3
                    /\ ecp_add # <<>>
                    /\ ecp_add' = [ecp_add EXCEPT
                          ![Len(ecp_add)].by_ang[ToInt(dat[1]) + 1] =
                              Append(@, <<dat[2].v, dat[3].v>>)]
              /\ IsNelecLine(dat) =>
                    /\ nelec' = Some(ToInt(dat[3]))
                    /\ ecp_add' = ecp_add
                    /\ by_ang' = by_ang
    /\ \A b \in 1..Len(ecp_add') : Len(ecp_add'[b].by_ang) = 4
    /\ (pass' = 1 /\ ret' # None /\ string'.lines = ExampleEcp) =>
          ret'[1] = ExampleResult

\* C10: during the scan of _parse_ecp every block has four power slots; a
\* data line '<power> <exponent> <coefficient>' is accepted only for a power
\* in {0,1,2,3} and appends its row to that slot of the latest block and
\* nowhere else; a NELEC line sets nelec and touches no block; the
\* documented example yields the documented Ecp.
C10_EcpScan == [][C10_Step]_vars

====
